---- MODULE Spec2Model ----
(***************************************************************************)
(* Model of the four batch TTS generators of luluco-typecast:              *)
(*   generate_colors.py            ("colors")                              *)
(*   generate_voice_assets_sample.py ("sample")                            *)
(*   generate_voice_assets.py      ("assets")                              *)
(*   typecast_batch_tts.py         ("batch")                               *)
(* One behaviour is one invocation of main() of one script, optionally     *)
(* followed by a second invocation on the filesystem the first one left.   *)
(* The vendor synthesis call and the filesystem writes are the             *)
(* environment: each may return or raise, and the process may be           *)
(* interrupted between any two steps.                                      *)
(***************************************************************************)
EXTENDS Integers, Sequences, FiniteSets, TLC

\* Longest manifest (number of utterances) the model enumerates.
MaxPlan == 2

Scripts == {"colors", "sample", "assets", "batch"}

\* Texts of an utterance: empty, whitespace-only, ordinary.
Texts == {"", " ", "hi"}

\* Destination paths (subdir / id + ext, or out_dir / filename).
Paths == {"a.mp3", "b.mp3"}

Entries == [dest : Paths, text : Texts]

SeqsUpTo(n) == UNION {[1..k -> Entries] : k \in 0..n}

\* What a path holds: nothing, a complete file from before the run, a
\* truncated (partly written) file, or the complete audio of plan entry by.
NoFile == [kind |-> "none", by |-> 0]
OldFile == [kind |-> "old", by |-> 0]
Partial(j) == [kind |-> "partial", by |-> j]
Full(j) == [kind |-> "full", by |-> j]

VARIABLES
    script,     \* which script runs
    force,      \* --force / --overwrite
    dry_run,    \* --dry-run
    manifest,   \* the YAML file: missing, malformed, or its utterances
    fs,         \* destination path -> content
    tmp,        \* destination path -> content of its ".tmp" sibling
    pc,         \* position of main()
    plan,       \* plan / items
    i,          \* index of the plan entry being processed
    generated, skipped, failed, planned,   \* the counters of main()
    calls,      \* per entry: number of synthesis calls made in this run
    outcome,    \* per entry: how the entry ended in this run
    exitCode,   \* exit status of the process, -1 while it runs
    err,        \* kind of the fatal error that ended the run
    run,        \* 1 or 2
    prev,       \* summary of run 1 (during run 2)
    writes,     \* number of write_bytes calls begun in this run
    fsStart,    \* the destination files when the current run started
    smp,        \* the sampling part of main() of generate_colors.py
    lm          \* load_manifest of typecast_batch_tts.py

mainVars == <<script, force, dry_run, manifest, fs, tmp, pc, plan, i,
              generated, skipped, failed, planned, calls, outcome, exitCode,
              err, run, prev, writes, fsStart>>

\* The state of the two parts that the generation loop does not touch.
aux == <<smp, lm>>

vars == <<mainVars, aux>>

\* smp and lm while the generation loop is what runs.
NoSample == [pc |-> "idle"]
NoLoad == [pc |-> "idle"]

NoPrev == [dry_run |-> FALSE, generated |-> 0, attempts |-> 0,
           wrote |-> FALSE, clean |-> FALSE]

Manifests ==
    {[state |-> "missing", entries |-> <<>>],
     [state |-> "malformed", entries |-> <<>>]}
    \cup {[state |-> "ok", entries |-> e] : e \in SeqsUpTo(MaxPlan)}

Init ==
    /\ script \in Scripts
    /\ force \in BOOLEAN
    /\ dry_run \in BOOLEAN
    /\ manifest \in Manifests
    /\ fs \in [Paths -> {NoFile, OldFile}]
    /\ tmp = [p \in Paths |-> NoFile]
    /\ pc = "start"
    /\ plan = <<>>
    /\ i = 1
    /\ generated = 0 /\ skipped = 0 /\ failed = 0 /\ planned = 0
    /\ calls = <<>>
    /\ outcome = <<>>
    /\ exitCode = -1
    /\ err = "none"
    /\ run = 1
    /\ prev = NoPrev
    /\ writes = 0
    /\ fsStart = fs
    /\ smp = NoSample
    /\ lm = NoLoad

(***************************************************************************)
(* Pure helpers                                                            *)
(***************************************************************************)

\* str.strip() on the modelled texts.
Strip(t) == IF t = " " THEN "" ELSE t

\* Python truthiness of a string: "not t".
Falsy(t) == t = ""

\* generate_voice_assets.py: "if not text or not text.strip()".
IsBlank(t) == Falsy(t) \/ Falsy(Strip(t))

\* Mutant: existence is looked up in a listing taken when the run started.
ExistsAtStart(f, p) == fsStart[p].kind # "none"

\* Path.exists() of a destination.
Exists(f, p) == f[p].kind # "none"

\* Mutant: the force flag is read the wrong way round.
ShouldSkipExistingInverted(exists, f) == exists /\ f

\* "if out_path.exists() and not args.force" / "... and not args.overwrite".
ShouldSkipExisting(exists, f) == exists /\ ~f

\* Only generate_voice_assets.py guards against empty text inside the loop.
ShouldSkipEmpty(s, t) == s = "assets" /\ IsBlank(t)

\* load_manifest of typecast_batch_tts.py: "if not key or not text: raise".
BatchLineRejected(e) == Falsy(e.text)

\* The manifest is rejected while it is parsed.
Malformed(s, m) ==
    \/ m.state = "malformed"
    \/ s = "batch" /\ \E k \in 1..Len(m.entries) : BatchLineRejected(m.entries[k])

\* The plan built from a well-formed manifest, in manifest order.
BuildPlan(m) == m.entries

\* Mutant: main() always returns 0.
ExitCodeAlwaysZero(s, nfailed) == 0

\* The value main() returns after the loop.
ExitCode(s, nfailed) == IF s = "batch" THEN 0 ELSE IF nfailed > 0 THEN 1 ELSE 0

\* Exit status of the interpreter when main() raises.
UncaughtExit == 1

\* Exit status of "return 2".
MissingYamlExit == 2

Terminal == {"done", "fatal", "crashed", "killed"}

dest == plan[i].dest
text == plan[i].text

(***************************************************************************)
(* main(), before the loop                                                 *)
(***************************************************************************)

Fatal(kind, code) ==
    /\ pc' = "fatal"
    /\ err' = kind
    /\ exitCode' = code

\* colors / sample / assets: "if not yaml_path.exists(): return 2".
CheckManifest ==
    /\ pc = "start"
    /\ script # "batch"
    /\ IF manifest.state = "missing"
         THEN Fatal("manifest_missing", MissingYamlExit)
         ELSE pc' = "load" /\ UNCHANGED <<err, exitCode>>
    /\ UNCHANGED <<script, force, dry_run, manifest, fs, tmp, plan, i,
                   generated, skipped, failed, planned, calls, outcome, run,
                   prev, fsStart,
                   writes, aux>>

\* batch: ensure_dir(out_dir); cli = Typecast() comes before the manifest is
\* read.  Whether the SDK constructor raises without a key is the SDK's
\* business: both outcomes are possible.
BatchClient ==
    /\ pc = "start"
    /\ script = "batch"
    /\ \E keyOk \in BOOLEAN :
          IF keyOk
            THEN pc' = "load" /\ UNCHANGED <<err, exitCode>>
            ELSE Fatal("credential", UncaughtExit)
    /\ UNCHANGED <<script, force, dry_run, manifest, fs, tmp, plan, i,
                   generated, skipped, failed, planned, calls, outcome, run,
                   prev, fsStart,
                   writes, aux>>

\* Reading and validating the manifest, building the plan, and the
\* "if not plan: return 0" of the config-based scripts.
LoadManifest ==
    /\ pc = "load"
    /\ IF manifest.state = "missing"
         THEN \* batch only: path.read_text raises FileNotFoundError
              /\ Fatal("manifest_missing", UncaughtExit)
              /\ UNCHANGED <<plan, calls, outcome>>
         ELSE IF Malformed(script, manifest)
         THEN /\ Fatal("malformed", UncaughtExit)
              /\ UNCHANGED <<plan, calls, outcome>>
         ELSE /\ plan' = BuildPlan(manifest)
              /\ calls' = [k \in 1..Len(plan') |-> 0]
              /\ outcome' = [k \in 1..Len(plan') |-> "none"]
              /\ IF script = "batch"
                   THEN pc' = "loop" /\ UNCHANGED <<err, exitCode>>
                   ELSE IF plan' = <<>>
                   THEN pc' = "done" /\ exitCode' = 0 /\ UNCHANGED err
                   ELSE pc' = "client" /\ UNCHANGED <<err, exitCode>>
    /\ UNCHANGED <<script, force, dry_run, manifest, fs, tmp, i, generated,
                   skipped, failed, planned, run, prev, fsStart,
                   writes, aux>>

\* Mutant: the client is built on first use, so a missing credential is
\* only noticed once the first synthesis call is under way.
InitClientLazy ==
    /\ \/ pc = "client" /\ pc' = "loop" /\ UNCHANGED <<err, exitCode>>
       \/ pc = "call" /\ Fatal("credential", UncaughtExit)
    /\ UNCHANGED <<script, force, dry_run, manifest, fs, tmp, plan, i,
                   generated, skipped, failed, planned, calls, outcome, run,
                   prev, fsStart,
                   writes, aux>>

\* "if not args.dry_run: cli = config.get_typecast_client()"; require_env
\* raises RuntimeError when TYPECAST_API_KEY is not set.
InitClient ==
    /\ pc = "client"
    /\ IF dry_run
         THEN pc' = "loop" /\ UNCHANGED <<err, exitCode>>
         ELSE \E keyOk \in BOOLEAN :
                IF keyOk
                  THEN pc' = "loop" /\ UNCHANGED <<err, exitCode>>
                  ELSE Fatal("credential", UncaughtExit)
    /\ UNCHANGED <<script, force, dry_run, manifest, fs, tmp, plan, i,
                   generated, skipped, failed, planned, calls, outcome, run,
                   prev, fsStart,
                   writes, aux>>

(***************************************************************************)
(* The generation loop                                                     *)
(***************************************************************************)

InLoop == pc = "loop" /\ i <= Len(plan)

\* The entry is finished with outcome o; the loop moves on.
EntryDone(o) ==
    /\ outcome' = [outcome EXCEPT ![i] = o]
    /\ i' = i + 1
    /\ pc' = "loop"

\* batch counts every entry it reaches in "planned".
Reached == planned' = IF script = "batch" THEN planned + 1 ELSE planned

SkipExisting ==
    /\ InLoop
    /\ ShouldSkipExisting(Exists(fs, dest), force)
    /\ skipped' = skipped + 1
    /\ Reached
    /\ EntryDone("skipped_exists")
    /\ UNCHANGED <<script, force, dry_run, manifest, fs, tmp, plan, generated,
                   failed, calls, exitCode, err, run, prev, fsStart,
                   writes, aux>>

SkipEmpty ==
    /\ InLoop
    /\ ~ShouldSkipExisting(Exists(fs, dest), force)
    /\ ShouldSkipEmpty(script, text)
    /\ skipped' = skipped + 1
    /\ Reached
    /\ EntryDone("skipped_empty")
    /\ UNCHANGED <<script, force, dry_run, manifest, fs, tmp, plan, generated,
                   failed, calls, exitCode, err, run, prev, fsStart,
                   writes, aux>>

\* "if args.dry_run": the config-based scripts count the entry as generated,
\* batch prints "[DRY]" and counts nothing.
DryRunEntry ==
    /\ InLoop
    /\ ~ShouldSkipExisting(Exists(fs, dest), force)
    /\ ~ShouldSkipEmpty(script, text)
    /\ dry_run
    /\ IF script = "batch"
         THEN UNCHANGED generated /\ EntryDone("dry")
         ELSE generated' = generated + 1 /\ EntryDone("generated")
    /\ Reached
    /\ UNCHANGED <<script, force, dry_run, manifest, fs, tmp, plan, skipped,
                   failed, calls, exitCode, err, run, prev, fsStart,
                   writes, aux>>

\* tts_one(...) / cli.text_to_speech(req) is invoked.
StartCall ==
    /\ InLoop
    /\ ~ShouldSkipExisting(Exists(fs, dest), force)
    /\ ~ShouldSkipEmpty(script, text)
    /\ ~dry_run
    /\ calls' = [calls EXCEPT ![i] = @ + 1]
    /\ Reached
    /\ pc' = "call"
    /\ UNCHANGED <<script, force, dry_run, manifest, fs, tmp, plan, i,
                   generated, skipped, failed, outcome, exitCode, err, run,
                   prev, fsStart,
                   writes, aux>>

\* An exception inside the try block of the config-based scripts is caught
\* and counted; batch has no try block, so the exception leaves main().
Raised ==
    IF script = "batch"
      THEN /\ pc' = "crashed"
           /\ exitCode' = UncaughtExit
           /\ outcome' = [outcome EXCEPT ![i] = "failed"]
           /\ UNCHANGED <<i, failed>>
      ELSE /\ failed' = failed + 1
           /\ EntryDone("failed")
           /\ UNCHANGED exitCode

CallRaises ==
    /\ pc = "call"
    /\ Raised
    /\ UNCHANGED <<script, force, dry_run, manifest, fs, tmp, plan, generated,
                   skipped, planned, calls, err, run, prev, fsStart,
                   writes, aux>>

CallReturns ==
    /\ pc = "call"
    /\ pc' = "wopen"
    /\ UNCHANGED <<script, force, dry_run, manifest, fs, tmp, plan, i,
                   generated, skipped, failed, planned, calls, outcome,
                   exitCode, err, run, prev, fsStart,
                   writes, aux>>

\* write_bytes opens (creates or truncates) its target: the ".tmp" sibling in
\* write_bytes_atomic, the destination itself in batch.
WriteOpen ==
    /\ pc = "wopen"
    /\ IF script = "batch"
         THEN fs' = [fs EXCEPT ![dest] = Partial(i)] /\ UNCHANGED tmp
         ELSE tmp' = [tmp EXCEPT ![dest] = Partial(i)] /\ UNCHANGED fs
    /\ writes' = writes + 1
    /\ pc' = "wdata"
    /\ UNCHANGED <<script, force, dry_run, manifest, plan, i, generated,
                   skipped, failed, planned, calls, outcome, exitCode, err,
                   run, prev, fsStart, aux>>

\* write_bytes writes all bytes and closes the file.  In batch that ends the
\* entry ("generated += 1"); in write_bytes_atomic the rename follows.
WriteData ==
    /\ pc = "wdata"
    /\ IF script = "batch"
         THEN /\ fs' = [fs EXCEPT ![dest] = Full(i)]
              /\ generated' = generated + 1
              /\ EntryDone("generated")
              /\ UNCHANGED tmp
         ELSE /\ tmp' = [tmp EXCEPT ![dest] = Full(i)]
              /\ pc' = "rename"
              /\ UNCHANGED <<fs, generated, outcome, i>>
    /\ UNCHANGED <<script, force, dry_run, manifest, plan, skipped, failed,
                   planned, calls, exitCode, err, run, prev, fsStart,
                   writes, aux>>

\* Mutant: the temporary file is never renamed to the destination.
RenameForgotten ==
    /\ pc = "rename"
    /\ generated' = generated + 1
    /\ EntryDone("generated")
    /\ UNCHANGED <<script, force, dry_run, manifest, fs, tmp, plan, skipped,
                   failed, planned, calls, exitCode, err, run, prev, fsStart,
                   writes, aux>>

\* tmp.replace(path): one atomic rename, then "generated += 1".
Rename ==
    /\ pc = "rename"
    /\ fs' = [fs EXCEPT ![dest] = tmp[dest]]
    /\ tmp' = [tmp EXCEPT ![dest] = NoFile]
    /\ generated' = generated + 1
    /\ EntryDone("generated")
    /\ UNCHANGED <<script, force, dry_run, manifest, plan, skipped, failed,
                   planned, calls, exitCode, err, run, prev, fsStart,
                   writes, aux>>

\* The write or the rename raises OSError.
WriteRaises ==
    /\ pc \in {"wopen", "wdata", "rename"}
    /\ Raised
    /\ UNCHANGED <<script, force, dry_run, manifest, fs, tmp, plan, generated,
                   skipped, planned, calls, err, run, prev, fsStart,
                   writes, aux>>

\* The loop is over: the summary is printed and main() returns.
Finish ==
    /\ pc = "loop"
    /\ i > Len(plan)
    /\ pc' = "done"
    /\ exitCode' = ExitCode(script, failed)
    /\ UNCHANGED <<script, force, dry_run, manifest, fs, tmp, plan, i,
                   generated, skipped, failed, planned, calls, outcome, err,
                   run, prev, fsStart,
                   writes, aux>>

\* The process is terminated (signal) while an entry's synthesis call or
\* write is in flight; nothing handles it.  (Termination at any other point
\* leaves the files exactly as the state it happens in.)
Interrupt ==
    /\ pc \in {"call", "wopen", "wdata", "rename"}
    /\ pc' = "killed"
    /\ UNCHANGED <<script, force, dry_run, manifest, fs, tmp, plan, i,
                   generated, skipped, failed, planned, calls, outcome,
                   exitCode, err, run, prev, fsStart,
                   writes, aux>>

Attempts == Cardinality({k \in 1..Len(plan) : calls[k] > 0})

\* A second invocation of the same script with the same manifest, output
\* directory and force flag, right after the first returned from its loop:
\* either the same command again, or the real run that follows a dry run.
NextRun ==
    /\ pc = "done"
    /\ run = 1
    /\ run' = 2
    /\ prev' = [dry_run |-> dry_run, generated |-> generated,
                attempts |-> Attempts,
                wrote |-> (fs # fsStart \/ writes > 0),
                clean |-> \A k \in 1..Len(plan) : outcome[k] # "failed"]
    /\ dry_run' \in {dry_run, FALSE}
    /\ writes' = 0
    /\ fsStart' = fs
    /\ pc' = "start"
    /\ plan' = <<>> /\ calls' = <<>> /\ outcome' = <<>>
    /\ i' = 1
    /\ generated' = 0 /\ skipped' = 0 /\ failed' = 0 /\ planned' = 0
    /\ exitCode' = -1
    /\ err' = "none"
    /\ UNCHANGED <<script, force, manifest, fs, tmp, aux>>

Next ==
    \/ CheckManifest
    \/ BatchClient
    \/ LoadManifest
    \/ InitClient
    \/ SkipExisting
    \/ SkipEmpty
    \/ DryRunEntry
    \/ StartCall
    \/ CallRaises
    \/ CallReturns
    \/ WriteOpen
    \/ WriteData
    \/ Rename
    \/ WriteRaises
    \/ Finish
    \/ Interrupt
    \/ NextRun

Spec == Init /\ [][Next]_vars

TypeOK ==
    /\ script \in Scripts
    /\ pc \in {"start", "load", "client", "loop", "call", "wopen", "wdata",
               "rename"} \cup Terminal
    /\ i \in 1..(Len(plan) + 1)
    /\ exitCode \in {-1, 0, 1, 2}
    /\ run \in {1, 2}

(***************************************************************************)
(* Properties                                                              *)
(***************************************************************************)

Indices == 1..Len(plan)

ConfigScript == script # "batch"

NoCalls == \A k \in Indices : calls[k] = 0

NothingWritten == fs = fsStart /\ writes = 0

Processed == {k \in Indices : outcome[k] # "none"}

FailedEntries == {k \in Indices : outcome[k] = "failed"}

\* C1: in every script, an entry whose destination exists when the loop
\* reaches it, with force/overwrite not set, is passed over in one step:
\* no synthesis call is made for it, nothing is written, and skipped grows
\* by exactly one (unless the process is killed at that point).
C1_ExistingIsSkipped ==
    [][(InLoop /\ Exists(fs, dest) /\ ~force /\ pc' # "killed")
         => /\ skipped' = skipped + 1
            /\ calls' = calls
            /\ generated' = generated /\ failed' = failed
            /\ fs' = fs /\ tmp' = tmp
            /\ pc' = "loop" /\ i' = i + 1]_vars

\* C1 witness: an entry of a run without force was skipped as existing.
C1_Witness ==
    /\ ~force
    /\ skipped > 0
    /\ \E k \in Indices : outcome[k] = "skipped_exists" /\ calls[k] = 0

\* C2 (as stated, for every script): an entry whose synthesis or write
\* raised is counted in failed, the run does not abort on it, and a run that
\* reaches its end has processed every entry.
C2_FailureIsCaught ==
    /\ failed = Cardinality(FailedEntries)
    /\ pc # "crashed"
    /\ pc = "done" => Processed = Indices

\* C2 restricted to the config-based scripts (colors, sample, assets).
C2_ConfigScripts == ConfigScript => C2_FailureIsCaught

\* C3 (as stated, for every script): an entry with empty or whitespace-only
\* text never gets a synthesis call and is never counted as generated or
\* failed.
C3_BlankIsSkipped ==
    \A k \in Indices :
        IsBlank(plan[k].text)
            => /\ calls[k] = 0
               /\ outcome[k] \in {"none", "skipped_exists", "skipped_empty"}

\* C3 restricted to generate_voice_assets.py.
C3_AssetsScript == script = "assets" => C3_BlankIsSkipped

\* C4 (as stated, for every script): whatever step the process is at or was
\* killed at, no destination path holds a partly written file.
C4_NoPartialDestination == \A p \in Paths : fs[p].kind # "partial"

\* C4 restricted to the scripts that use write_bytes_atomic.
C4_ConfigScripts == ConfigScript => C4_NoPartialDestination

\* C5 (as stated, for every script): a dry run followed by a real run on the
\* same inputs: the dry run made no call and wrote nothing, and its
\* generated count is the number of entries the real run tried to synthesize.
C5_DryRunPredictsRealRun ==
    (run = 2 /\ prev.dry_run /\ ~dry_run /\ pc = "done")
        => /\ prev.attempts = 0
           /\ ~prev.wrote
           /\ prev.generated = Attempts

\* C5 restricted to the config-based scripts and to plans whose entries have
\* pairwise different destinations.
C5_ConfigScriptsDistinct ==
    (ConfigScript /\ \A k, m \in Indices : plan[k].dest = plan[m].dest => k = m)
        => C5_DryRunPredictsRealRun

\* C6: when main() is left after the loop, or by an exception in the loop,
\* the exit code is 1 if some entry failed and 0 otherwise.
C6_ExitCode ==
    pc \in {"done", "crashed"}
        => exitCode = IF FailedEntries # {} THEN 1 ELSE 0

\* C6 witness: a completed run with a failed and a generated entry exits 1.
C6_Witness ==
    /\ pc = "done"
    /\ FailedEntries # {}
    /\ generated > 0
    /\ exitCode = 1

\* C7 (as stated, for every script): a run whose manifest file is missing
\* (and that did not already stop on the credential) reports it and ends
\* with exit code 2.
C7_MissingManifestExits2 ==
    (manifest.state = "missing" /\ pc \in {"done", "fatal", "crashed"}
       /\ err # "credential")
        => err = "manifest_missing" /\ exitCode = MissingYamlExit

\* C7 restricted to the config-based scripts.
C7_ConfigScripts == ConfigScript => C7_MissingManifestExits2

\* C8: a run that ended in a fatal error (missing manifest, malformed
\* entry, missing credential) made no synthesis call, wrote no file and
\* incremented no counter.
C8_FatalBeforeLoop ==
    pc = "fatal"
        => /\ err \in {"manifest_missing", "malformed", "credential"}
           /\ NoCalls
           /\ NothingWritten
           /\ generated = 0 /\ skipped = 0 /\ failed = 0 /\ planned = 0
           /\ Processed = {}

\* C8 witness: a real run over a non-empty plan stopped on the missing
\* credential, with a destination that the loop would have generated.
C8_Witness ==
    /\ pc = "fatal"
    /\ err = "credential"
    /\ plan # <<>>
    /\ \E k \in Indices : ~Exists(fs, plan[k].dest)

\* C9 (as stated, for every script): at most one call per entry, every
\* processed entry has one of the four outcomes, the three counters add up
\* to the number of entries processed so far, and to the plan length at
\* the end of the pass.
C9_OneOutcomePerEntry ==
    /\ \A k \in Indices : calls[k] <= 1
    /\ \A k \in Processed :
          outcome[k] \in {"skipped_exists", "skipped_empty", "generated",
                          "failed"}
    /\ generated + skipped + failed = Cardinality(Processed)
    /\ pc = "done" => generated + skipped + failed = Len(plan)

\* C9 restricted to the config-based scripts.
C9_ConfigScripts == ConfigScript => C9_OneOutcomePerEntry

\* C9, the counters of one run never decrease (any script).
C9_CountersMonotone ==
    [][run' = run => /\ generated' >= generated
                     /\ skipped' >= skipped
                     /\ failed' >= failed]_vars

SecondRunIdle == NoCalls /\ NothingWritten /\ generated = 0

\* C10 (as stated): after a run without force that completed without
\* failures, a second run with the same options makes no synthesis call,
\* writes nothing and reports generated = 0.
C10_SecondRunIdle ==
    (run = 2 /\ ~force /\ prev.clean /\ dry_run = prev.dry_run)
        => SecondRunIdle

\* C10 (amended): the same, when the runs are real runs (not dry runs).
C10_SecondRealRunIdle ==
    (run = 2 /\ ~force /\ prev.clean /\ ~prev.dry_run /\ ~dry_run)
        => SecondRunIdle

\* C10 witness: the first run generated a file, the second run came to its
\* end and skipped it.
C10_Witness ==
    /\ run = 2 /\ ~force /\ prev.clean /\ ~prev.dry_run /\ ~dry_run
    /\ prev.generated > 0
    /\ pc = "done"
    /\ skipped > 0

\* C17 (as stated, for every script): an entry that failed (its synthesis
\* call or its write raised) has left nothing of its own at its destination:
\* the path holds what it held before the entry.  In a first run whatever is
\* at a path is the file from before the run or was put there by the entry
\* whose index it carries.
C17_FailureLeavesDestination ==
    \A k \in Indices :
        (run = 1 /\ outcome[k] = "failed")
            => ~(fs[plan[k].dest].kind \in {"partial", "full"}
                   /\ fs[plan[k].dest].by = k)

\* C17 restricted to the scripts that use write_bytes_atomic.
C17_ConfigScripts == ConfigScript => C17_FailureLeavesDestination

SameDest(k, m) == plan[k].dest = plan[m].dest

LastGenerated(m) ==
    /\ outcome[m] = "generated"
    /\ \A n \in Indices : (n > m /\ SameDest(m, n)) => outcome[n] # "generated"

\* C18: in a real run without force, once an entry has been generated every
\* later entry with the same destination gets no synthesis call and is
\* skipped as existing; and when a real run has finished its pass, each
\* destination holds the audio of the last entry generated for it (with
\* force, the later entry has overwritten the earlier one's file).
C18_OneWritePerDestination ==
    /\ (~force /\ ~dry_run)
          => \A k, m \in Indices :
                (k < m /\ SameDest(k, m) /\ outcome[k] = "generated")
                    => /\ calls[m] = 0
                       /\ outcome[m] \in {"none", "skipped_exists"}
    /\ (~dry_run /\ pc = "done")
          => \A m \in Indices :
                LastGenerated(m) => fs[plan[m].dest] = Full(m)

\* C18 witness: without force the second of two entries with one
\* destination was skipped after the first was generated.
C18_Witness ==
    /\ ~force /\ ~dry_run
    /\ \E k, m \in Indices :
          /\ k < m /\ SameDest(k, m)
          /\ outcome[k] = "generated"
          /\ outcome[m] = "skipped_exists"
          /\ plan[k].text # plan[m].text

\* C18, the force case reached: both entries generated, the later one's
\* audio is at the destination.
C18_ForceWitness ==
    /\ force /\ ~dry_run /\ pc = "done"
    /\ \E k, m \in Indices :
          /\ k < m /\ SameDest(k, m)
          /\ outcome[k] = "generated" /\ outcome[m] = "generated"
          /\ fs[plan[m].dest] = Full(m)

(***************************************************************************)
(* Sampling: sample() and the selection part of main() of                  *)
(* generate_colors.py (generate_voice_assets_sample.py has the same        *)
(* sample() and the same pattern over seven groups).  The utterances of a  *)
(* group are named by their position in the YAML list.                     *)
(***************************************************************************)

\* Largest group the model enumerates.
MaxPop == 3

\* Largest --seed the model enumerates.
MaxSeed == 1

\* Number of states of the modelled generator.
RngMod == 5

RngStates == 0..(RngMod - 1)

\* Requested counts --n-long / --n-short: negative, zero, below, at and
\* above the population size.
Counts == (-1)..(MaxPop + 1)

\* The main loop's variables while only the sampling part is looked at.
MainIdle ==
    /\ script = "colors"
    /\ force = FALSE
    /\ dry_run = FALSE
    /\ manifest = [state |-> "ok", entries |-> <<>>]
    /\ fs = [p \in Paths |-> NoFile]
    /\ tmp = [p \in Paths |-> NoFile]
    /\ pc = "start"
    /\ plan = <<>>
    /\ i = 1
    /\ generated = 0 /\ skipped = 0 /\ failed = 0 /\ planned = 0
    /\ calls = <<>>
    /\ outcome = <<>>
    /\ exitCode = -1
    /\ err = "none"
    /\ run = 1
    /\ prev = NoPrev
    /\ writes = 0
    /\ fsStart = fs

\* random.Random(seed): the generator's state is a function of the seed.
SeedState(seed) == seed % RngMod

\* One draw advances the generator.
Advance(s) == (3 * s + 1) % RngMod

\* rng._randbelow(k), read off the current state.
Randbelow(s, k) == s % k

\* random.Random.sample on a small population: n draws without replacement,
\* each draw taking pool[j] and moving the last pool element into its place.
RECURSIVE PoolSample(_, _, _, _)
PoolSample(pool, m, n, s) ==
    IF n = 0
      THEN [out |-> <<>>, rng |-> s]
      ELSE LET j == Randbelow(s, m) + 1
               rest == PoolSample([pool EXCEPT ![j] = pool[m]], m - 1, n - 1,
                                  Advance(s))
           IN  [out |-> <<pool[j]>> \o rest.out, rng |-> rest.rng]

RngSample(items, n, s) == PoolSample(items, Len(items), n, s)

\* Mutant: "n > len(items)" instead of "n >= len(items)".
SampleStrictBound(items, n, s) ==
    IF n <= 0 \/ items = <<>>
      THEN [out |-> <<>>, rng |-> s]
      ELSE IF n > Len(items)
      THEN [out |-> items, rng |-> s]
      ELSE RngSample(items, n, s)

\* Mutant: a count of zero or less selects the whole group.
SampleNonPositiveIsAll(items, n, s) ==
    IF n <= 0 \/ items = <<>>
      THEN [out |-> items, rng |-> s]
      ELSE IF n >= Len(items)
      THEN [out |-> items, rng |-> s]
      ELSE RngSample(items, n, s)

\* sample(items, n, rng): the selection and the generator state after it.
Sample(items, n, s) ==
    IF n <= 0 \/ items = <<>>
      THEN [out |-> <<>>, rng |-> s]
      ELSE IF n >= Len(items)
      THEN [out |-> items, rng |-> s]
      ELSE RngSample(items, n, s)

\* iter_utterances of a group with n entries.
Group(n) == [k \in 1..n |-> k]

long_utterances == Group(smp.nl)
short_utterances == Group(smp.ns)

SampleInit ==
    /\ MainIdle
    /\ lm = NoLoad
    /\ \E seed \in 0..MaxSeed, a \in BOOLEAN, nlong \in Counts,
         nshort \in Counts, pl \in 0..MaxPop, ps \in 0..MaxPop,
         entropy \in RngStates :
          smp = [pc |-> "seed", seed |-> seed, all |-> a, n_long |-> nlong,
                 n_short |-> nshort, nl |-> pl, ns |-> ps, rng |-> entropy,
                 selected_long |-> <<>>, selected_short |-> <<>>,
                 plan |-> <<>>, run |-> 1, prev_plan |-> <<>>]

\* Mutant: the generator is created without the seed and keeps whatever
\* state the process started with.
SeedRngUnseeded ==
    /\ smp.pc = "seed"
    /\ smp' = [smp EXCEPT !.pc = "long"]
    /\ UNCHANGED <<mainVars, lm>>

\* "rng = random.Random(args.seed)".
SeedRng ==
    /\ smp.pc = "seed"
    /\ smp' = [smp EXCEPT !.pc = "long", !.rng = SeedState(smp.seed)]
    /\ UNCHANGED <<mainVars, lm>>

\* selected_long: all of the group with --all, else sample(..., n_long, rng).
SelectLong ==
    /\ smp.pc = "long"
    /\ LET r == IF smp.all
                  THEN [out |-> long_utterances, rng |-> smp.rng]
                  ELSE Sample(long_utterances, smp.n_long, smp.rng)
       IN  smp' = [smp EXCEPT !.pc = "short", !.selected_long = r.out,
                              !.rng = r.rng]
    /\ UNCHANGED <<mainVars, lm>>

\* selected_short, drawn from the same generator after selected_long.
SelectShort ==
    /\ smp.pc = "short"
    /\ LET r == IF smp.all
                  THEN [out |-> short_utterances, rng |-> smp.rng]
                  ELSE Sample(short_utterances, smp.n_short, smp.rng)
       IN  smp' = [smp EXCEPT !.pc = "plan", !.selected_short = r.out,
                              !.rng = r.rng]
    /\ UNCHANGED <<mainVars, lm>>

\* The plan: the selected long utterances, then the selected short ones.
BuildSamplePlan ==
    /\ smp.pc = "plan"
    /\ smp' = [smp EXCEPT
                 !.pc = "done",
                 !.plan =
                    [k \in 1..Len(smp.selected_long) |->
                        [subdir |-> "long", id |-> smp.selected_long[k]]]
                    \o [k \in 1..Len(smp.selected_short) |->
                        [subdir |-> "short", id |-> smp.selected_short[k]]]]
    /\ UNCHANGED <<mainVars, lm>>

\* The same command is run again: a new process, whose generator does not
\* exist until it is created.
SampleRerun ==
    /\ smp.pc = "done"
    /\ smp.run = 1
    /\ \E entropy \in RngStates :
          smp' = [smp EXCEPT !.pc = "seed", !.run = 2, !.rng = entropy,
                             !.prev_plan = smp.plan,
                             !.selected_long = <<>>,
                             !.selected_short = <<>>, !.plan = <<>>]
    /\ UNCHANGED <<mainVars, lm>>

SampleNext ==
    \/ SeedRng
    \/ SelectLong
    \/ SelectShort
    \/ BuildSamplePlan
    \/ SampleRerun

SpecSample == SampleInit /\ [][SampleNext]_vars

IsSample(sel, population, n) ==
    /\ Len(sel) = n
    /\ \A k \in 1..n : \E q \in 1..Len(population) : sel[k] = population[q]
    /\ \A k, q \in 1..n : sel[k] = sel[q] => k = q

SampleContract(sel, population, n) ==
    /\ n >= Len(population) => sel = population
    /\ (0 < n /\ n < Len(population)) => IsSample(sel, population, n)

LongSelected == smp.pc \in {"short", "plan", "done"}
ShortSelected == smp.pc \in {"plan", "done"}

\* C11: two runs of the sampling script with the same seed, manifest and
\* counts build the same plan, entry for entry.
C11_SamplingDeterministic ==
    (smp.run = 2 /\ smp.pc = "done") => smp.plan = smp.prev_plan

\* C11 witness: the second run has built its plan, and both groups were
\* really sampled (0 < n < group size).
C11_Witness ==
    /\ smp.run = 2 /\ smp.pc = "done"
    /\ ~smp.all
    /\ 0 < smp.n_long /\ smp.n_long < smp.nl
    /\ 0 < smp.n_short /\ smp.n_short < smp.ns

\* C12: sample() with n >= len(items) returns the group in its original
\* order, and with 0 < n < len(items) exactly n distinct members of it.
C12_SampleContract ==
    /\ (LongSelected /\ ~smp.all)
          => SampleContract(smp.selected_long, long_utterances, smp.n_long)
    /\ (ShortSelected /\ ~smp.all)
          => SampleContract(smp.selected_short, short_utterances, smp.n_short)

\* C12 witness: one group was asked for exactly its size, the other for
\* fewer than it has.
C12_Witness ==
    /\ ShortSelected /\ ~smp.all
    /\ smp.n_long = smp.nl /\ smp.nl > 1
    /\ 0 < smp.n_short /\ smp.n_short < smp.ns

\* C13 (as stated): sample() with n <= 0 returns the whole group.
C13_NonPositiveIsAll ==
    /\ (LongSelected /\ ~smp.all /\ smp.n_long <= 0)
          => smp.selected_long = long_utterances
    /\ (ShortSelected /\ ~smp.all /\ smp.n_short <= 0)
          => smp.selected_short = short_utterances

\* C13 (amended): sample() with n <= 0 returns the empty list.
C13_NonPositiveIsNone ==
    /\ (LongSelected /\ ~smp.all /\ smp.n_long <= 0)
          => smp.selected_long = <<>>
    /\ (ShortSelected /\ ~smp.all /\ smp.n_short <= 0)
          => smp.selected_short = <<>>

\* C13 witness: non-empty groups, counts 0 and -1, nothing selected.
C13_Witness ==
    /\ smp.pc = "done" /\ ~smp.all
    /\ smp.n_long = 0 /\ smp.nl > 0
    /\ smp.n_short < 0 /\ smp.ns > 0
    /\ smp.plan = <<>>

(***************************************************************************)
(* load_manifest of typecast_batch_tts.py.  A mapping is modelled by the   *)
(* value it gives each key it may hold, "absent" for a key it does not     *)
(* hold and "None" for a YAML null.  Values carry the name of the level    *)
(* they were written at.  Strings that are slugified or hashed are         *)
(* sequences of characters.                                                *)
(***************************************************************************)

\* Number of values of the modelled digest (8 hex digits in the source).
HashRange == 4

\* slugify(s, max_len=80).
SlugMaxLen == 80

ScalarKeys == {"model", "voice_id", "language", "output_format"}
PromptKeys == {"emotion_preset", "emotion_intensity"}
OutputKeys == {"volume", "tempo"}

AbsentScalars == [k \in ScalarKeys |-> "absent"]
AbsentMap(keys) == [state |-> "absent", kv |-> [k \in keys |-> "absent"]]

\* The mappings a "prompt" / "output" key can hold at level tag: no such
\* key, null, or a mapping holding any subset of its keys.
MapValues(keys, tag) ==
    {AbsentMap(keys), [state |-> "None", kv |-> [k \in keys |-> "absent"]]}
    \cup {[state |-> "map", kv |-> kv] : kv \in [keys -> {"absent", tag}]}

\* Python truthiness of a scalar value.
NotTruthy(v) == v \in {"None", ""}

\* d.get(k, default)
Get(d, k, default) == IF d[k] # "absent" THEN d[k] ELSE default

\* "m or {}" for the value of a "prompt" / "output" key.
OrEmpty(m) == IF m.state = "map" THEN m.kv ELSE [k \in DOMAIN m.kv |-> "absent"]

\* {**a, **b} of two mappings of parameters.
MergeKv(a, b) == [k \in DOMAIN a |-> IF b[k] # "absent" THEN b[k] ELSE a[k]]

\* Mutant: {**set, **defaults}, the global defaults override the set's.
MergeLevelsSwapped(a, b) ==
    [sc |-> [k \in ScalarKeys |->
                IF a.sc[k] # "absent" THEN a.sc[k] ELSE b.sc[k]],
     prompt |-> IF a.prompt.state # "absent" THEN a.prompt ELSE b.prompt,
     output |-> IF a.output.state # "absent" THEN a.output ELSE b.output]

\* {**defaults, **(s.get("defaults") or {})}: a key of b replaces the key of
\* a, whole value for whole value.
MergeLevels(a, b) ==
    [sc |-> [k \in ScalarKeys |->
                IF b.sc[k] # "absent" THEN b.sc[k] ELSE a.sc[k]],
     prompt |-> IF b.prompt.state # "absent" THEN b.prompt ELSE a.prompt,
     output |-> IF b.output.state # "absent" THEN b.output ELSE a.output]

\* str.lower() on the modelled characters.
Lower(c) == IF c = "A" THEN "a" ELSE IF c = "B" THEN "b" ELSE c

\* The characters [a-zA-Z0-9._-] that SAFE_CHARS leaves alone.
IsSafe(c) == c \in {"a", "b", "A", "B", "-", ".", "_"}

RECURSIVE StripLeft(_, _)
StripLeft(str, junk) ==
    IF str # <<>> /\ Head(str) \in junk THEN StripLeft(Tail(str), junk) ELSE str

RECURSIVE StripRight(_, _)
StripRight(str, junk) ==
    IF str # <<>> /\ str[Len(str)] \in junk
      THEN StripRight(SubSeq(str, 1, Len(str) - 1), junk)
      ELSE str

\* str.strip() / str.strip("-")
StripChars(str, junk) == StripRight(StripLeft(str, junk), junk)

\* SAFE_CHARS.sub("-", s): every maximal run of unsafe characters becomes
\* one "-"; inRun says the previous character was unsafe.
RECURSIVE SubUnsafe(_, _)
SubUnsafe(str, inRun) ==
    IF str = <<>> THEN <<>>
    ELSE IF IsSafe(Head(str)) THEN <<Head(str)>> \o SubUnsafe(Tail(str), FALSE)
    ELSE IF inRun THEN SubUnsafe(Tail(str), TRUE)
    ELSE <<"-">> \o SubUnsafe(Tail(str), TRUE)

slugify(str) ==
    LET stripped == StripChars(str, {" "})
        lowered == [k \in 1..Len(stripped) |-> Lower(stripped[k])]
        dashed == StripChars(SubUnsafe(lowered, FALSE), {"-"})
    IN  IF Len(dashed) > SlugMaxLen THEN SubSeq(dashed, 1, SlugMaxLen) ELSE dashed

CharCode(c) == IF c = "x" THEN 1 ELSE IF c = "y" THEN 2 ELSE 3

RECURSIVE CodeSum(_)
CodeSum(str) == IF str = <<>> THEN 0 ELSE CharCode(Head(str)) + CodeSum(Tail(str))

\* short_hash(s): a digest with finitely many values, so different texts
\* can have the same one.
short_hash(str) == CodeSum(str) % HashRange

\* Mutant: the derived name hashes the line's voice along with its text.
DeriveFilenameWithVoice(set_name, ln, output_format) ==
    [explicit |-> <<>>,
     slug |-> slugify(set_name \o <<"-">> \o ln.key),
     hash |-> (short_hash(ln.text)
                 + (IF ln.sc["voice_id"] = "line" THEN 1 ELSE 0)) % HashRange,
     ext |-> output_format]

\* filename: ln["filename"] if given, else
\* f"{slugify(base)}-{short_hash(text)}.{output_format}".
DeriveFilename(set_name, ln, output_format) ==
    IF ln.filename # <<>>
      THEN [explicit |-> ln.filename, slug |-> <<>>, hash |-> 0, ext |-> ""]
      ELSE [explicit |-> <<>>,
            slug |-> slugify(set_name \o <<"-">> \o ln.key),
            hash |-> short_hash(ln.text),
            ext |-> output_format]

\* The manifests load_manifest is run on.  A level is the "defaults"
\* mapping of the manifest or of the set, or the keys of one line.
Level(sc, p, o) == [sc |-> sc, prompt |-> p, output |-> o]

NoLevel == Level(AbsentScalars, AbsentMap(PromptKeys), AbsentMap(OutputKeys))

Line(key, txt, filename, lv) ==
    [key |-> key, text |-> txt, filename |-> filename,
     sc |-> lv.sc, prompt |-> lv.prompt, output |-> lv.output]

Data(defaults, set_name, set_defaults, lines) ==
    [defaults |-> defaults,
     set |-> [name |-> set_name, defaults |-> set_defaults, lines |-> lines]]

WithVoice == [k \in ScalarKeys |->
                 IF k \in {"model", "voice_id"} THEN "global" ELSE "absent"]

SetNames == {<<>>, <<"a">>, <<" ", "A", "!">>}
LineKeys == {<<>>, <<"a">>, <<"B">>, <<"a", " ", "!", "b">>}
LineTexts == {<<>>, <<"x">>, <<"x", "y">>, <<"y", "x">>}
FileNames == {<<>>, <<"f">>}

\* The state at the entry of load_manifest(manifest_path) with the parsed
\* YAML d.
LmStart(d) ==
    lm = [pc |-> "load", data |-> d, defaults |-> NoLevel,
          set_defaults |-> NoLevel, idx |-> 0, items |-> <<>>,
          error |-> "none"]

\* Every scalar key written or not at each of the three levels.
ScalarCases ==
    \E g \in [ScalarKeys -> {"absent", "global"}],
       st \in [ScalarKeys -> {"absent", "set"}],
       l \in [ScalarKeys -> {"absent", "line"}] :
        LmStart(Data(Level(g, AbsentMap(PromptKeys), AbsentMap(OutputKeys)),
                     <<"a">>,
                     Level(st, AbsentMap(PromptKeys), AbsentMap(OutputKeys)),
                     <<Line(<<"a">>, <<"x">>, <<>>,
                            Level(l, AbsentMap(PromptKeys),
                                  AbsentMap(OutputKeys)))>>))

\* One scalar key written, null or missing at each of the three levels.
NullCases ==
    \E k \in ScalarKeys,
       g \in {"absent", "None", "global"},
       st \in {"absent", "None", "set"},
       l \in {"absent", "None", "line"} :
        LmStart(Data(Level([WithVoice EXCEPT ![k] = g], AbsentMap(PromptKeys),
                           AbsentMap(OutputKeys)),
                     <<"a">>,
                     Level([AbsentScalars EXCEPT ![k] = st],
                           AbsentMap(PromptKeys), AbsentMap(OutputKeys)),
                     <<Line(<<"a">>, <<"x">>, <<>>,
                            Level([AbsentScalars EXCEPT ![k] = l],
                                  AbsentMap(PromptKeys),
                                  AbsentMap(OutputKeys)))>>))

\* The "prompt" and "output" mappings at each of the three levels.
MappingCases ==
    \E pg \in MapValues(PromptKeys, "global"),
       og \in MapValues(OutputKeys, "global"),
       ps \in MapValues(PromptKeys, "set"),
       os \in MapValues(OutputKeys, "set"),
       pl \in MapValues(PromptKeys, "line"),
       ol \in MapValues(OutputKeys, "line") :
        LmStart(Data(Level(WithVoice, pg, og), <<"a">>,
                     Level(AbsentScalars, ps, os),
                     <<Line(<<"a">>, <<"x">>, <<>>,
                            Level(AbsentScalars, pl, ol))>>))

FilenameLines ==
    {Line(key, txt, fname,
          Level([AbsentScalars EXCEPT !["output_format"] = fmt,
                                      !["voice_id"] = voice],
                AbsentMap(PromptKeys), AbsentMap(OutputKeys))) :
        key \in LineKeys, txt \in LineTexts, fname \in FileNames,
        fmt \in {"absent", "line"}, voice \in {"absent", "line"}}

\* Two lines of one set, with or without a filename of their own.
FilenameCases ==
    \E name \in SetNames, l1 \in FilenameLines, l2 \in FilenameLines :
        LmStart(Data(Level(WithVoice, AbsentMap(PromptKeys),
                           AbsentMap(OutputKeys)),
                     name, NoLevel, <<l1, l2>>))

ManifestInit ==
    /\ MainIdle
    /\ smp = NoSample
    /\ (ScalarCases \/ NullCases \/ MappingCases \/ FilenameCases)

\* raise ValueError(...)
LmRaise(kind) == lm' = [lm EXCEPT !.pc = "error", !.error = kind]

\* defaults = data.get("defaults", {}) or {}; sets = data.get("sets", []) or []
LmReadDefaults ==
    /\ lm.pc = "load"
    /\ lm' = [lm EXCEPT !.pc = "set", !.defaults = lm.data.defaults]
    /\ UNCHANGED <<mainVars, smp>>

\* for s in sets: the name check and the set's merged defaults.
LmEnterSet ==
    /\ lm.pc = "set"
    /\ IF lm.data.set.name = <<>>
         THEN LmRaise("set_name")
         ELSE lm' = [lm EXCEPT !.pc = "line", !.idx = 1,
                        !.set_defaults =
                            MergeLevels(lm.defaults, lm.data.set.defaults)]
    /\ UNCHANGED <<mainVars, smp>>

\* The LineItem built from one line.
MakeItem(set_name, set_defaults, ln) ==
    LET sd == set_defaults.sc
        output_format == Get(ln.sc, "output_format",
                             Get(sd, "output_format", "mp3"))
    IN  [set |-> set_name, key |-> ln.key, text |-> ln.text,
         sc |-> [k \in ScalarKeys |->
                    CASE k = "model" -> Get(ln.sc, k, Get(sd, k, "None"))
                      [] k = "voice_id" -> Get(ln.sc, k, Get(sd, k, "None"))
                      [] k = "language" -> Get(ln.sc, k, Get(sd, k, "en"))
                      [] k = "output_format" -> output_format],
         prompt |-> MergeKv(OrEmpty(set_defaults.prompt), OrEmpty(ln.prompt)),
         output |-> MergeKv(OrEmpty(set_defaults.output), OrEmpty(ln.output)),
         filename |-> DeriveFilename(set_name, ln, output_format)]

\* for ln in lines: one pass of the loop body.
LmLine ==
    /\ lm.pc = "line"
    /\ lm.idx <= Len(lm.data.set.lines)
    /\ LET ln == lm.data.set.lines[lm.idx]
           item == MakeItem(lm.data.set.name, lm.set_defaults, ln)
       IN  IF ln.key = <<>> \/ ln.text = <<>>
             THEN LmRaise("key_text")
             ELSE IF NotTruthy(item.sc["model"]) \/ NotTruthy(item.sc["voice_id"])
               THEN LmRaise("model_voice")
               ELSE lm' = [lm EXCEPT !.idx = lm.idx + 1,
                              !.items = Append(lm.items, item)]
    /\ UNCHANGED <<mainVars, smp>>

\* return items
LmReturn ==
    /\ lm.pc = "line"
    /\ lm.idx > Len(lm.data.set.lines)
    /\ lm' = [lm EXCEPT !.pc = "returned"]
    /\ UNCHANGED <<mainVars, smp>>

ManifestNext == LmReadDefaults \/ LmEnterSet \/ LmLine \/ LmReturn

SpecManifest == ManifestInit /\ [][ManifestNext]_vars

(***************************************************************************)
(* Properties of load_manifest.  Item j was built from line j: the loop    *)
(* appends one item per line and stops at the first line it rejects.       *)
(***************************************************************************)

IsManifest == lm.pc # "idle"

Lines == lm.data.set.lines

ItemIndices == 1..Len(lm.items)

Fallback(k) ==
    CASE k = "language" -> "en"
      [] k = "output_format" -> "mp3"
      [] OTHER -> "None"

\* Line first, then the set's defaults, then the manifest's, then the
\* built-in fallback, read from the manifest as it was loaded.
EffectiveScalar(ln, k) ==
    IF ln.sc[k] # "absent" THEN ln.sc[k]
    ELSE IF lm.data.set.defaults.sc[k] # "absent" THEN lm.data.set.defaults.sc[k]
    ELSE IF lm.data.defaults.sc[k] # "absent" THEN lm.data.defaults.sc[k]
    ELSE Fallback(k)

\* No level gives the line a model, or none gives it a voice_id.
NoModelOrVoice(ln) ==
    \E k \in {"model", "voice_id"} :
        /\ ln.sc[k] = "absent"
        /\ lm.data.set.defaults.sc[k] = "absent"
        /\ lm.data.defaults.sc[k] = "absent"

\* C14: for model, voice_id, language and output_format the value of an
\* item is the line's if the line has the key, else the set default if the
\* set defines it, else the global default, else 'en' / 'mp3'; a line that
\* has no model or no voice_id at any level is never turned into an item
\* and load_manifest does not return.
C14_ScalarInheritance ==
    IsManifest =>
        /\ \A j \in ItemIndices : \A k \in ScalarKeys :
               lm.items[j].sc[k] = EffectiveScalar(Lines[j], k)
        /\ \A j \in 1..Len(Lines) :
               NoModelOrVoice(Lines[j]) =>
                   /\ Len(lm.items) < j
                   /\ lm.pc # "returned"
                   /\ (lm.pc = "line" => lm.idx <= j)

\* An item whose model comes from the set although the manifest defaults
\* name one too, whose output_format is the line's and whose language is
\* the built-in one.
C14_Witness ==
    /\ lm.pc = "returned"
    /\ Len(lm.items) = 1
    /\ lm.data.defaults.sc["model"] = "global"
    /\ lm.items[1].sc["model"] = "set"
    /\ lm.items[1].sc["voice_id"] = "global"
    /\ lm.items[1].sc["output_format"] = "line"
    /\ lm.items[1].sc["language"] = "en"

\* A line with no voice_id at any level was rejected with the validation
\* error.
C14_RejectWitness ==
    /\ lm.pc = "error"
    /\ lm.error = "model_voice"
    /\ lm.items = <<>>
    /\ NoModelOrVoice(Lines[1])
    /\ EffectiveScalar(Lines[1], "model") = "line"

\* A parameter key is given at a level when the level has the mapping and
\* the mapping holds the key.
Given(m, k) == m.state = "map" /\ m.kv[k] # "absent"

EffectiveParam(lnMap, setMap, globalMap, k) ==
    IF Given(lnMap, k) THEN lnMap.kv[k]
    ELSE IF Given(setMap, k) THEN setMap.kv[k]
    ELSE IF Given(globalMap, k) THEN globalMap.kv[k]
    ELSE "absent"

\* No "prompt" or "output" key of the manifest is null.
NoNullMapping ==
    \A lv \in {lm.data.defaults, lm.data.set.defaults} \cup
              {Level(Lines[j].sc, Lines[j].prompt, Lines[j].output) :
                   j \in 1..Len(Lines)} :
        lv.prompt.state # "None" /\ lv.output.state # "None"

\* C15: every prompt parameter and every output parameter of an item is
\* the line's value if given, else the set's if given, else the global
\* default's, key by key (on manifests whose "prompt" and "output" keys,
\* where present, hold mappings).
C15_ParamInheritance ==
    (IsManifest /\ NoNullMapping) =>
        \A j \in ItemIndices :
            /\ \A k \in PromptKeys :
                   lm.items[j].prompt[k] =
                       EffectiveParam(Lines[j].prompt,
                                      lm.data.set.defaults.prompt,
                                      lm.data.defaults.prompt, k)
            /\ \A k \in OutputKeys :
                   lm.items[j].output[k] =
                       EffectiveParam(Lines[j].output,
                                      lm.data.set.defaults.output,
                                      lm.data.defaults.output, k)

\* The part of C15 that the code keeps: a line's own parameters win, and
\* without a set-level mapping the global mapping is inherited key by key.
C15_LineWins ==
    IsManifest =>
        \A j \in ItemIndices : \A k \in PromptKeys :
            /\ Given(Lines[j].prompt, k)
                   => lm.items[j].prompt[k] = Lines[j].prompt.kv[k]
            /\ lm.data.set.defaults.prompt.state = "absent"
                   => lm.items[j].prompt[k] =
                          EffectiveParam(Lines[j].prompt,
                                         lm.data.set.defaults.prompt,
                                         lm.data.defaults.prompt, k)

Derived(j) == lm.items[j].filename.explicit = <<>>

SameKey(j, m) == lm.items[j].key = lm.items[m].key

\* C16 as stated: two lines of a set with the same key and text get the
\* same derived filename, and with the same key and different texts get
\* different hash suffixes.
C16_FilenameFromTriple ==
    IsManifest =>
        \A j, m \in ItemIndices :
            (Derived(j) /\ Derived(m) /\ SameKey(j, m)) =>
                IF lm.items[j].text = lm.items[m].text
                  THEN lm.items[j].filename = lm.items[m].filename
                  ELSE lm.items[j].filename.hash # lm.items[m].filename.hash

\* C16: two lines of a set with the same key, text and effective
\* output_format get the same derived filename whatever else they hold,
\* and two lines with the same key whose texts have different short hashes
\* get different hash suffixes.
C16_FilenameFromQuad ==
    IsManifest =>
        \A j, m \in ItemIndices :
            (Derived(j) /\ Derived(m) /\ SameKey(j, m)) =>
                /\ (/\ lm.items[j].text = lm.items[m].text
                    /\ lm.items[j].sc["output_format"]
                           = lm.items[m].sc["output_format"])
                       => lm.items[j].filename = lm.items[m].filename
                /\ short_hash(lm.items[j].text) # short_hash(lm.items[m].text)
                       => lm.items[j].filename.hash # lm.items[m].filename.hash

\* Two lines with the same key, text and output_format and different
\* voices were both given derived filenames.
C16_Witness ==
    /\ lm.pc = "returned"
    /\ Len(lm.items) = 2
    /\ Derived(1) /\ Derived(2) /\ SameKey(1, 2)
    /\ lm.items[1].text = lm.items[2].text
    /\ lm.items[1].sc["output_format"] = lm.items[2].sc["output_format"]
    /\ lm.items[1].sc["voice_id"] # lm.items[2].sc["voice_id"]
    /\ lm.items[1].filename.slug = <<"a", "-", "a", "-", "b">>

\* Two lines with the same key and texts of different short hashes were
\* both given derived filenames.
C16_TextWitness ==
    /\ lm.pc = "returned"
    /\ Len(lm.items) = 2
    /\ Derived(1) /\ Derived(2) /\ SameKey(1, 2)
    /\ short_hash(lm.items[1].text) # short_hash(lm.items[2].text)

====
